---- MODULE Spec2Model ----
(***************************************************************************)
(* Model of the document chat application: the credential store            *)
(* (app.py register/login/logout), the document registry and processing    *)
(* pipeline (processing_sql.py), aggregate retrieval                       *)
(* (app.py generate_ai_response), the conversation store (app.py           *)
(* save_message/get_conversation_messages) and the separator choice of     *)
(* the text splitter (processing_sql.py splitting_text).                   *)
(*                                                                         *)
(* The relational store is taken to be reliable.  The external             *)
(* capabilities (LLM client, embedding model, file loaders, splitter,      *)
(* vector store, self-query retriever) may raise at every call.            *)
(* Timestamps (created_at, last_login, uploaded_at) are not represented.   *)
(***************************************************************************)
EXTENDS Integers, Sequences, FiniteSets, TLC

\* ---------------------------------------------------------------- bounds
MaxDocs == 2      \* rows the documents table may hold
MaxFiles == 2     \* files handed to one process_documents call
MaxHits == 3      \* chunks one retriever may return for a query
MaxMessages == 3  \* rows the messages table may hold
MaxTime == 3      \* last instant of the clock
MaxTextLen == 4   \* characters of a text handed to the splitter

\* results[:5] in generate_ai_response
Limit == 5

Usernames == {"ana", "bob", "cy"}
Emails == {"a@x", "b@x"}
Passwords == {"pw"}
LoginPasswords == {"pw", "bad"}

\* st.session_state.user_id = None
NoUser == 0

\* Sessions that write messages at the same time: w1 saves prompts
\* (is_user = True), w2 saves answers (is_user = False)
Writers == {"w1", "w2"}

\* The conversations the sessions have open (st.session_state.conversation_id);
\* 0 stands for None
ConversationIds == {1, 2}

\* A writer that holds no uncommitted Message
NoMessage == [conversation_id |-> 0]

\* Document.vector_store_id IS NULL / the vector_store_id=None default
None == [user |-> 0, doc |-> 0]

\* Uploaded files: a name (stem, extension) and the MIME type the client
\* declares, as the list of its "/"-separated parts.
Files ==
    { [name |-> [stem |-> "a", ext |-> "pdf"], type |-> <<"application", "pdf">>],
      [name |-> [stem |-> "b", ext |-> "txt"], type |-> <<"text", "plain">>],
      [name |-> [stem |-> "c", ext |-> "txt"], type |-> <<"image", "png">>],
      [name |-> [stem |-> "d", ext |-> "png"], type |-> <<"image", "png">>] }

\* st.sidebar.file_uploader(type=["pdf", "txt"]) filters on the extension
file_uploader == { f \in Files : f.name.ext \in {"pdf", "txt"} }

VARIABLES
    users,            \* table users: sequence of rows, user_id = index
    session_user_id,  \* st.session_state.user_id
    documents,        \* table documents: sequence of rows, document_id = index
    files,            \* file paths written under uploads/
    dirs,             \* vector store directories that exist
    built,            \* directories holding a completely built index
    pending,          \* files process_documents still has to handle
    cur,              \* document_id process_document is working on
    pc,               \* position inside process_documents
    st_success,       \* documents for which st.success was shown
    st_error,         \* documents for which st.error was shown
    result,           \* outcome of the most recent call
    messages,         \* table messages: sequence of rows, message_id = index
    now,              \* the clock datetime.utcnow reads
    writing           \* per writer: the Message it has built and not yet committed

vars == <<users, session_user_id, documents, files, dirs, built, pending,
          cur, pc, st_success, st_error, result,
          messages, now, writing>>

convVars == <<messages, now, writing>>

authVars == <<users, session_user_id>>
docVars == <<documents, files, dirs, built, pending, cur, pc, st_success, st_error>>

\* ------------------------------------------------------------- helpers
Range(s) == { s[i] : i \in DOMAIN s }

RECURSIVE Concat(_)
Concat(ss) == IF ss = <<>> THEN <<>> ELSE Head(ss) \o Concat(Tail(ss))

Min(a, b) == IF a < b THEN a ELSE b

\* werkzeug generate_password_hash / check_password_hash
generate_password_hash(password) == <<"pbkdf2", password>>
check_password(user, password) == user.password_hash = generate_password_hash(password)

Init ==
    /\ users = <<>>
    /\ session_user_id = NoUser
    /\ documents = <<>>
    /\ files = {}
    /\ dirs = {}
    /\ built = {}
    /\ pending = <<>>
    /\ cur = 0
    /\ pc = "idle"
    /\ st_success = {}
    /\ st_error = {}
    /\ result = [op |-> "none"]
    /\ messages = <<>>
    /\ now = 1
    /\ writing = [w \in Writers |-> NoMessage]

\* ----------------------------------------------------- credential store
\* Variant of existing_user that looks at the username only
existing_user_username_only(us, username, email) ==
    \E i \in DOMAIN us : us[i].username = username

\* filter((User.username == username) | (User.email == email)).first()
existing_user(us, username, email) ==
    \E i \in DOMAIN us : us[i].username = username \/ us[i].email = email

\* auth_ui offers the login and registration forms only while logged out
register(username, email, password) ==
    /\ pc = "idle"
    /\ session_user_id = NoUser
    /\ IF existing_user(users, username, email)
       THEN /\ users' = users
            /\ result' = [op |-> "register", username |-> username,
                          email |-> email, ret |-> FALSE]
       ELSE /\ users' = Append(users, [username |-> username, email |-> email,
                                       password_hash |-> generate_password_hash(password)])
            /\ result' = [op |-> "register", username |-> username,
                          email |-> email, ret |-> TRUE]
    /\ UNCHANGED <<convVars, session_user_id, docVars>>

login(username, password) ==
    /\ pc = "idle"
    /\ session_user_id = NoUser
    /\ LET found == { i \in DOMAIN users : users[i].username = username }
       IN IF found # {} /\ check_password(users[CHOOSE i \in found : TRUE], password)
          THEN /\ session_user_id' = CHOOSE i \in found : TRUE
               /\ result' = [op |-> "login", ret |-> TRUE]
          ELSE /\ session_user_id' = session_user_id
               /\ result' = [op |-> "login", ret |-> FALSE]
    /\ UNCHANGED <<convVars, users, docVars>>

logout ==
    /\ pc = "idle"
    /\ session_user_id # NoUser
    /\ session_user_id' = NoUser
    /\ result' = [op |-> "logout"]
    /\ UNCHANGED <<convVars, users, docVars>>

\* --------------------------------------------------- document registry
\* f"vector_stores/user_{user_id}/doc_{document_id}"
vector_store_dir(user_id, document_id) == [user |-> user_id, doc |-> document_id]

\* uploaded_file.type.split('/')[1] if '/' in uploaded_file.type else 'txt'
file_extension(type) == IF Len(type) > 1 THEN type[2] ELSE "txt"

\* "pdf" in document.document_type.lower()
is_pdf(type) == \E i \in DOMAIN type : type[i] = "pdf"

\* SQLFileLoader.update_document_status: the rows after the call
update_document_status(docs, document_id, vector_store_id) ==
    IF document_id \in DOMAIN docs
    THEN [docs EXCEPT ![document_id] =
            [@ EXCEPT !.processed = TRUE,
                      !.vector_store_id =
                          IF vector_store_id # None THEN vector_store_id ELSE @]]
    ELSE docs

\* A loader built for (user_id, document_id) has update_document_status
\* called on it: the constructor creates the directory, the call returns
\* None whether or not the row exists.
update_document_status_call(user_id, document_id, vector_store_id) ==
    /\ pc = "idle"
    /\ dirs' = dirs \cup {vector_store_dir(user_id, document_id)}
    /\ documents' = update_document_status(documents, document_id, vector_store_id)
    /\ result' = [op |-> "update_document_status", document_id |-> document_id,
                  locator |-> vector_store_id,
                  found |-> document_id \in DOMAIN documents,
                  outcome |-> "returned"]
    /\ UNCHANGED <<convVars, authVars, files, built, pending, cur, pc, st_success, st_error>>

\* ------------------------------------------------- process_documents
\* The loop of process_documents moves on to the next file
NextFile ==
    /\ pending' = Tail(pending)
    /\ cur' = 0
    /\ pc' = IF Tail(pending) = <<>> THEN "idle" ELSE "save"
    /\ result' = IF Tail(pending) = <<>>
                 THEN [op |-> "process_documents", ret |-> "document_ids"]
                 ELSE result

\* except Exception as e: st.error(f"Erro ao processar {file.name}: ...")
Raise ==
    /\ st_error' = st_error \cup {cur}
    /\ UNCHANGED st_success
    /\ NextFile

\* process_documents is entered from document_upload_ui with the uploader's files
process_documents(uploaded_files) ==
    /\ pc = "idle"
    /\ IF session_user_id = NoUser
       THEN /\ result' = [op |-> "process_documents", ret |-> "None"]
            /\ UNCHANGED <<pending, pc>>
       ELSE /\ pending' = uploaded_files
            /\ pc' = "save"
            /\ result' = [op |-> "process_documents", ret |-> "running"]
    /\ UNCHANGED <<convVars, authVars, documents, files, dirs, built, cur, st_success, st_error>>

\* SQLFactoryLoader.save_file
save_file ==
    /\ pc = "save"
    /\ LET uploaded_file == Head(pending)
           file_uuid == Cardinality(files) + 1
           file_path == [user |-> session_user_id, uuid |-> file_uuid,
                         ext |-> file_extension(uploaded_file.type)]
       IN /\ files' = files \cup {file_path}
          /\ documents' = Append(documents,
                 [user_id |-> session_user_id,
                  document_name |-> uploaded_file.name,
                  document_type |-> uploaded_file.type,
                  file_path |-> file_path,
                  vector_store_id |-> None,
                  processed |-> FALSE])
          /\ cur' = Len(documents) + 1
    /\ pc' = "find"
    /\ UNCHANGED <<convVars, authVars, dirs, built, pending, st_success, st_error, result>>

\* process_document up to the loader's constructor (os.makedirs)
process_document ==
    /\ pc = "find"
    /\ IF cur \in DOMAIN documents
       THEN /\ dirs' = dirs \cup {vector_store_dir(documents[cur].user_id, cur)}
            /\ pc' = "llm"
            /\ UNCHANGED <<pending, cur, st_success, st_error, result>>
       ELSE /\ UNCHANGED dirs
            /\ Raise
    /\ UNCHANGED <<convVars, authVars, documents, files, built>>

\* A call into an external capability that changes no state of the program
ExternalCall(at, next) ==
    /\ pc = at
    /\ \/ /\ pc' = next
          /\ UNCHANGED <<pending, cur, st_success, st_error, result>>
       \/ Raise
    /\ UNCHANGED <<convVars, authVars, documents, files, dirs, built>>

\* call_ai: llm = OpenAI(api_key=...)
OpenAI_init == ExternalCall("llm", "embedding")
\* embedding_vector_store: embedding = HuggingFaceEmbeddings()
HuggingFaceEmbeddings_init == ExternalCall("embedding", "load")
\* process_file: loader.load()
process_file == ExternalCall("load", "split")
\* splitting_text: split.split_documents(...)
splitting_text == ExternalCall("split", "build")

\* Variant of Chroma_from_documents that updates the status before the build
Chroma_from_documents_marks_first ==
    /\ pc = "build"
    /\ documents' = update_document_status(documents, cur,
                        vector_store_dir(documents[cur].user_id, cur))
    /\ \/ /\ built' = built \cup {vector_store_dir(documents[cur].user_id, cur)}
          /\ pc' = "mark"
          /\ UNCHANGED <<pending, cur, st_success, st_error, result>>
       \/ /\ UNCHANGED built
          /\ Raise
    /\ UNCHANGED <<convVars, authVars, files, dirs>>

\* embedding_vector_store: Chroma.from_documents(...) returns or raises
Chroma_from_documents ==
    /\ pc = "build"
    /\ \/ /\ built' = built \cup {vector_store_dir(documents[cur].user_id, cur)}
          /\ pc' = "mark"
          /\ UNCHANGED <<pending, cur, st_success, st_error, result>>
       \/ /\ UNCHANGED built
          /\ Raise
    /\ UNCHANGED <<convVars, authVars, documents, files, dirs>>

\* embedding_vector_store: self.update_document_status(vector_store_id=self.vector_store_dir)
mark_processed ==
    /\ pc = "mark"
    /\ documents' = update_document_status(documents, cur,
                        vector_store_dir(documents[cur].user_id, cur))
    /\ pc' = "retriever"
    /\ UNCHANGED <<convVars, authVars, files, dirs, built, pending, cur, st_success, st_error, result>>

\* call_ai: SelfQueryRetriever.from_llm(...), then st.success in process_documents
SelfQueryRetriever_from_llm ==
    /\ pc = "retriever"
    /\ \/ /\ st_success' = st_success \cup {cur}
          /\ UNCHANGED st_error
          /\ NextFile
       \/ Raise
    /\ UNCHANGED <<convVars, authVars, documents, files, dirs, built>>

\* The server process dies inside process_documents: the rows, files and
\* directories written so far stay, the session state is lost.
Crash ==
    /\ pc # "idle"
    /\ pc' = "idle"
    /\ pending' = <<>>
    /\ cur' = 0
    /\ session_user_id' = NoUser
    /\ result' = [op |-> "none"]
    /\ UNCHANGED <<convVars, users, documents, files, dirs, built, st_success, st_error>>

\* ------------------------------------------------- aggregate retrieval
\* Variant of processed_documents that forgets the user_id filter
processed_documents_any_user(docs, user_id) ==
    SelectSeq([i \in 1..Len(docs) |-> i], LAMBDA d : docs[d].processed)

\* query(Document).filter_by(user_id=user_id, processed=True).all(); the
\* rows come back in document_id order
processed_documents(docs, user_id) ==
    SelectSeq([i \in 1..Len(docs) |-> i],
              LAMBDA d : docs[d].user_id = user_id /\ docs[d].processed)

\* get_document_retriever raises: the row check of line 216, or a failure
\* to open the index or build the retriever (the documents in failing)
retriever_raises(docs, document_id, failing) ==
    \/ document_id \notin DOMAIN docs
    \/ ~docs[document_id].processed
    \/ docs[document_id].vector_store_id = None
    \/ document_id \in failing

\* Variant of get_all_user_retrievers that gives up at the first failure
RECURSIVE retrievers_until_failure(_, _, _)
retrievers_until_failure(docs, ds, failing) ==
    IF ds = <<>> \/ retriever_raises(docs, Head(ds), failing)
    THEN <<>>
    ELSE <<Head(ds)>> \o retrievers_until_failure(docs, Tail(ds), failing)

get_all_user_retrievers_abort(docs, user_id, failing) ==
    retrievers_until_failure(docs,
        SelectSeq([i \in 1..Len(docs) |-> i],
                  LAMBDA d : docs[d].user_id = user_id /\ docs[d].processed),
        failing)

\* get_all_user_retrievers: one retriever per document, failures skipped
get_all_user_retrievers(docs, user_id, failing) ==
    SelectSeq(processed_documents(docs, user_id),
              LAMBDA d : ~retriever_raises(docs, d, failing))

\* The documents get_all_user_retrievers printed an error for
skipped_documents(docs, user_id, failing) ==
    SelectSeq(processed_documents(docs, user_id),
              LAMBDA d : retriever_raises(docs, d, failing))

\* retriever.get_relevant_documents(query): the n best chunks of document d
get_relevant_documents(d, n) == [k \in 1..n |-> [doc |-> d, rank |-> k]]

\* results after the loop over the retrievers
extend_results(retrievers, hits) ==
    Concat([i \in 1..Len(retrievers) |->
               get_relevant_documents(retrievers[i], hits[retrievers[i]])])

\* Variant of first_results without the slice
first_results_unbounded(results) == results

\* results[:5]
first_results(results) == SubSeq(results, 1, Min(Limit, Len(results)))

\* Variant of ai_response without the "if not retrievers" test
ai_response_no_empty_test(retrievers, hits, qfail) ==
    IF qfail # 0
    THEN [kind |-> "error", queried |-> SubSeq(retrievers, 1, qfail), chunks |-> <<>>]
    ELSE LET results == extend_results(retrievers, hits)
         IN IF results = <<>>
            THEN [kind |-> "no_relevant_information", queried |-> retrievers,
                  chunks |-> <<>>]
            ELSE [kind |-> "answer", queried |-> retrievers,
                  chunks |-> first_results(results)]

\* What generate_ai_response returns.  qfail = 0: no query raises;
\* qfail = j: get_relevant_documents of the j-th retriever raises.
\* chunks are the documents whose page_content is joined into the answer.
ai_response(retrievers, hits, qfail) ==
    IF retrievers = <<>>
    THEN [kind |-> "no_documents_processed", queried |-> <<>>, chunks |-> <<>>]
    ELSE IF qfail # 0
    THEN [kind |-> "error", queried |-> SubSeq(retrievers, 1, qfail), chunks |-> <<>>]
    ELSE LET results == extend_results(retrievers, hits)
         IN IF results = <<>>
            THEN [kind |-> "no_relevant_information", queried |-> retrievers,
                  chunks |-> <<>>]
            ELSE [kind |-> "answer", queried |-> retrievers,
                  chunks |-> first_results(results)]

\* chat_ui receives a prompt (st.chat_input) and starts handling it.  The
\* tests chat_ui makes before it shows the input are left out, so that the
\* guard clauses of generate_ai_response itself are reached.
chat_prompt ==
    /\ pc = "idle"
    /\ pc' = "chat"
    /\ result' = [op |-> "chat_prompt"]
    /\ UNCHANGED <<convVars, authVars, documents, files, dirs, built, pending, cur,
                   st_success, st_error>>

generate_ai_response(failing, hits, qfail) ==
    /\ pc = "chat"
    /\ pc' = "idle"
    /\ IF session_user_id = NoUser
       THEN result' = [op |-> "generate_ai_response", kind |-> "login_required",
                       queried |-> <<>>, chunks |-> <<>>,
                       retrievers |-> <<>>, skipped |-> <<>>, results |-> <<>>]
       ELSE LET retrievers == get_all_user_retrievers(documents, session_user_id, failing)
                r == ai_response(retrievers, hits, Min(qfail, Len(retrievers)))
            IN result' = [op |-> "generate_ai_response", kind |-> r.kind,
                          queried |-> r.queried, chunks |-> r.chunks,
                          retrievers |-> retrievers,
                          skipped |-> skipped_documents(documents, session_user_id, failing),
                          results |-> extend_results(retrievers, hits)]
    /\ UNCHANGED <<convVars, authVars, documents, files, dirs, built, pending, cur,
                   st_success, st_error>>

\* -------------------------------------------------- conversation store
\* The clock moves on
Tick ==
    /\ now' = now + 1
    /\ UNCHANGED <<authVars, docVars, result, messages, writing>>

\* save_message up to db_session.add: the Message is built and its
\* timestamp default (datetime.utcnow) is read.  conversation_id = 0 is the
\* "if not conversation_id: return" case.
save_message_add(w, conversation_id, is_user, content) ==
    /\ writing[w] = NoMessage
    /\ IF conversation_id = 0
       THEN UNCHANGED writing
       ELSE writing' = [writing EXCEPT ![w] =
                           [conversation_id |-> conversation_id,
                            is_user |-> is_user,
                            content |-> content,
                            timestamp |-> now]]
    /\ result' = [op |-> "save_message"]
    /\ UNCHANGED <<authVars, docVars, messages, now>>

\* save_message: db_session.commit() makes the row visible
save_message_commit(w) ==
    /\ writing[w] # NoMessage
    /\ messages' = Append(messages, writing[w])
    /\ writing' = [writing EXCEPT ![w] = NoMessage]
    /\ result' = [op |-> "save_message"]
    /\ UNCHANGED <<authVars, docVars, now>>

\* Insert message_id m into ids, which is ordered by timestamp; a row with
\* an equal timestamp goes after the ones already there.
RECURSIVE insert_by_timestamp(_, _, _)
insert_by_timestamp(msgs, ids, m) ==
    IF ids = <<>> THEN <<m>>
    ELSE IF msgs[m].timestamp < msgs[Head(ids)].timestamp
         THEN <<m>> \o ids
         ELSE <<Head(ids)>> \o insert_by_timestamp(msgs, Tail(ids), m)

\* Variant of order_by that leaves the rows in the order they were read
order_by_nothing(msgs, ids) == ids

\* .order_by(Message.timestamp) over the rows read in the order ids
RECURSIVE order_by_timestamp(_, _)
order_by_timestamp(msgs, ids) ==
    IF ids = <<>> THEN <<>>
    ELSE insert_by_timestamp(msgs,
             order_by_timestamp(msgs, SubSeq(ids, 1, Len(ids) - 1)),
             ids[Len(ids)])

Reverse(s) == [i \in 1..Len(s) |-> s[Len(s) + 1 - i]]

\* query(Message).filter_by(conversation_id=...): the message_ids read, in
\* table order or, with backward, in the opposite order (the order in which
\* the database reads rows is not fixed; it decides between equal timestamps)
filter_by_conversation(msgs, conversation_id, backward) ==
    LET ids == SelectSeq([i \in 1..Len(msgs) |-> i],
                         LAMBDA m : msgs[m].conversation_id = conversation_id)
    IN IF backward THEN Reverse(ids) ELSE ids

\* get_conversation_messages: ids are the rows in the order returned, ret the
\* list of role/content dictionaries, n the size of the table when read
get_conversation_messages(conversation_id, backward) ==
    /\ LET ids == IF conversation_id = 0 THEN <<>>
                  ELSE order_by_timestamp(messages,
                           filter_by_conversation(messages, conversation_id, backward))
       IN result' = [op |-> "get_conversation_messages",
                     conversation_id |-> conversation_id,
                     n |-> Len(messages),
                     ids |-> ids,
                     ret |-> [i \in 1..Len(ids) |->
                                [role |-> IF messages[ids[i]].is_user
                                          THEN "user" ELSE "assistant",
                                 content |-> messages[ids[i]].content]]]
    /\ UNCHANGED <<authVars, docVars, convVars>>

\* ------------------------------------------------------- text splitter
\* Characters of a document text: a letter, the sentence terminator, the
\* blank and the line break
Alphabet == {"a", ".", " ", "\n"}

Texts == UNION { [1..n -> Alphabet] : n \in 0..MaxTextLen }

\* separators=["\n\n", "\n", "", ".", " "], each as its characters
separators == << <<"\n", "\n">>, <<"\n">>, <<>>, <<".">>, <<" ">> >>

\* re.search(re.escape(separator), text) for a separator that is not empty
contains(text, separator) ==
    \E i \in 1..(Len(text) - Len(separator) + 1) :
        SubSeq(text, i, i + Len(separator) - 1) = separator

\* The loop with which RecursiveCharacterTextSplitter picks the separator
\* for a text: the first entry from position i on that is empty or occurs
\* in the text, and the last entry if there is none
RECURSIVE choose_separator(_, _, _)
choose_separator(text, seps, i) ==
    IF i > Len(seps) THEN seps[Len(seps)]
    ELSE IF seps[i] = <<>> THEN <<>>
    ELSE IF contains(text, seps[i]) THEN seps[i]
    ELSE choose_separator(text, seps, i + 1)

\* split.split_documents(...) reaches a text: the separator it is split on
split_text(text) ==
    /\ result' = [op |-> "split_text", text |-> text,
                  separator |-> choose_separator(text, separators, 1)]
    /\ UNCHANGED <<authVars, docVars, convVars>>

\* -------------------------------------------------------- specifications
\* The handlers, with their inputs drawn from the given sets
Register(accounts) ==
    \E a \in accounts, p \in Passwords : register(a[1], a[2], p)

Login == \E u \in Usernames, p \in LoginPasswords : login(u, p)

Upload(choices) ==
    \E fs \in UNION { [1..n -> choices] : n \in 1..MaxFiles } :
        /\ Len(documents) + Len(fs) <= MaxDocs
        /\ process_documents(fs)

\* A query either has every retriever answer (hits chunks each) or has the
\* qfail-th retriever raise, after which no later retriever is asked.
Query ==
    \E failing \in SUBSET Range(processed_documents(documents, session_user_id)) :
      LET retrievers == get_all_user_retrievers(documents, session_user_id, failing)
      IN \/ \E hits \in [Range(retrievers) -> 0..MaxHits] :
               generate_ai_response(failing, hits, 0)
         \/ \E qfail \in 1..Len(retrievers) :
               generate_ai_response(failing, [d \in Range(retrievers) |-> 0], qfail)

\* The processing pipeline of one user: uploads of every file the uploader
\* lets through, every external failure, and crashes.
Next ==
    \/ Register({<<"ana", "a@x">>})
    \/ Login
    \/ logout
    \/ Upload(file_uploader)
    \/ save_file
    \/ process_document
    \/ OpenAI_init
    \/ HuggingFaceEmbeddings_init
    \/ process_file
    \/ splitting_text
    \/ Chroma_from_documents
    \/ mark_processed
    \/ SelfQueryRetriever_from_llm
    \/ Crash

Spec == Init /\ [][Next]_vars

\* The credential store alone: every username/email combination
NextCredentials ==
    \/ Register(Usernames \X Emails)
    \/ Login
    \/ logout

SpecCredentials == Init /\ [][NextCredentials]_vars

\* Aggregate retrieval over the documents of two users; the uploads are the
\* PDF and the plain text file
RetrievalFiles ==
    { f \in file_uploader : is_pdf(f.type) \/ f.type = <<"text", "plain">> }

NextRetrieval ==
    \/ Register({<<"ana", "a@x">>, <<"bob", "b@x">>})
    \/ Login
    \/ logout
    \/ Upload(RetrievalFiles)
    \/ save_file
    \/ process_document
    \/ OpenAI_init
    \/ HuggingFaceEmbeddings_init
    \/ process_file
    \/ splitting_text
    \/ Chroma_from_documents
    \/ mark_processed
    \/ SelfQueryRetriever_from_llm
    \/ chat_prompt
    \/ Query

SpecRetrieval == Init /\ [][NextRetrieval]_vars

\* The document registry with update_document_status also called directly
NextRegistry ==
    \/ Register({<<"ana", "a@x">>})
    \/ Login
    \/ logout
    \/ Upload(RetrievalFiles)
    \/ save_file
    \/ process_document
    \/ OpenAI_init
    \/ HuggingFaceEmbeddings_init
    \/ process_file
    \/ splitting_text
    \/ Chroma_from_documents
    \/ mark_processed
    \/ SelfQueryRetriever_from_llm
    \/ \E u \in DOMAIN users, d \in 1..MaxDocs :
          \E v \in {None, vector_store_dir(u, d)} :
             update_document_status_call(u, d, v)

SpecRegistry == Init /\ [][NextRegistry]_vars

\* The conversation store with writers that save messages at the same time
NextConversation ==
    \/ /\ now < MaxTime
       /\ Tick
    \/ \E w \in Writers, c \in ConversationIds \cup {0} :
          /\ Len(messages) + Cardinality({x \in Writers : writing[x] # NoMessage})
                < MaxMessages
          /\ save_message_add(w, c, w = "w1", IF w = "w1" THEN "pergunta" ELSE "resposta")
    \/ \E w \in Writers : save_message_commit(w)
    \/ \E c \in ConversationIds \cup {0}, backward \in BOOLEAN :
          get_conversation_messages(c, backward)

SpecConversation == Init /\ [][NextConversation]_vars

\* The splitter applied to every text over the alphabet
NextSplitter == \E text \in Texts : split_text(text)

SpecSplitter == Init /\ [][NextSplitter]_vars

\* ------------------------------------------------------------- claims
IsQuery == result.op = "generate_ai_response" /\ session_user_id # NoUser

\* The documents of the logged-in user whose processed flag is set
OwnProcessed ==
    { d \in DOMAIN documents :
        documents[d].user_id = session_user_id /\ documents[d].processed }

\* C1: every Document row has vector_store_id set if and only if processed
\* is true, after any sequence of save_file, process_document and
\* update_document_status calls.
LocatorIffProcessed ==
    \A d \in DOMAIN documents :
        (documents[d].vector_store_id # None) <=> documents[d].processed

\* C2: a document is marked processed only once the index build for it has
\* returned; a failure or crash before that leaves processed = false.
ProcessedOnlyAfterBuild ==
    \A d \in DOMAIN documents :
        documents[d].processed =>
            vector_store_dir(documents[d].user_id, d) \in built

ProcessedAndFailedBuild ==
    /\ \E d \in DOMAIN documents : documents[d].processed /\ d \in st_success
    /\ \E d \in st_error :
          /\ ~documents[d].processed
          /\ vector_store_dir(documents[d].user_id, d) \in dirs \ built

\* C3: a document whose processing error was shown to the user still has
\* processed = false.
SurfacedErrorLeavesUnprocessed ==
    \A d \in st_error : ~documents[d].processed

\* C4: update_document_status for a document_id without a row ends in a
\* NotFound outcome; with a row it sets processed and stores the locator.
MarkProcessedNotFound ==
    result.op = "update_document_status" =>
        IF result.found
        THEN /\ documents[result.document_id].processed
             /\ result.locator # None =>
                   documents[result.document_id].vector_store_id = result.locator
        ELSE result.outcome = "NotFound"

\* C5: register with a username or an email that an existing user has
\* returns failure and leaves the users table as it was; usernames and
\* emails stay unique.
RegisterRejectsDuplicates ==
    /\ [](\A i, j \in DOMAIN users :
             i # j => /\ users[i].username # users[j].username
                      /\ users[i].email # users[j].email)
    /\ [][(/\ result' # result
           /\ result'.op = "register"
           /\ \E i \in DOMAIN users : \/ users[i].username = result'.username
                                      \/ users[i].email = result'.email)
          => (result'.ret = FALSE /\ users' = users)]_vars

DuplicateEmailRejected ==
    /\ result.op = "register"
    /\ result.ret = FALSE
    /\ \E i \in DOMAIN users : /\ users[i].email = result.email
                               /\ users[i].username # result.username
    /\ \A i \in DOMAIN users : users[i].username # result.username

AnswerIsFirstFive ==
    (IsQuery /\ result.kind = "answer") =>
        /\ Len(result.chunks) <= 5
        /\ Len(result.chunks) = IF Len(result.results) < 5
                                THEN Len(result.results) ELSE 5
        /\ \A i \in DOMAIN result.chunks : result.chunks[i] = result.results[i]
        /\ \A i, j \in DOMAIN result.results :
              i < j =>
                 LET a == result.results[i]
                     b == result.results[j]
                 IN \/ a.doc < b.doc
                    \/ a.doc = b.doc /\ a.rank < b.rank

AnswerTruncated ==
    /\ IsQuery
    /\ result.kind = "answer"
    /\ Len(result.results) > 5
    /\ Len(result.queried) >= 2

\* C8: a processed document whose retriever cannot be built is skipped; the
\* retrievers of all the user's other processed documents are returned in
\* document order and the failure does not reach the caller.
FailingRetrieverSkipped ==
    IsQuery =>
        /\ Range(result.retrievers) = OwnProcessed \ Range(result.skipped)
        /\ \A i, j \in DOMAIN result.retrievers :
              i < j => result.retrievers[i] < result.retrievers[j]
        /\ result.kind = "error" => result.queried # <<>>

RetrieverAfterSkippedDocument ==
    /\ IsQuery
    /\ result.kind = "answer"
    /\ \E i \in DOMAIN result.skipped, j \in DOMAIN result.retrievers :
          result.skipped[i] < result.retrievers[j]

\* C9: a query of a logged-in user without a processed document returns
\* the "no documents processed" message and queries no retriever.
NoDocumentsProcessedMessage ==
    (IsQuery /\ OwnProcessed = {}) =>
        /\ result.kind = "no_documents_processed"
        /\ result.queried = <<>>

QueryBeforeProcessing ==
    /\ IsQuery
    /\ OwnProcessed = {}
    /\ \E d \in DOMAIN documents : documents[d].user_id = session_user_id

\* The declared types PDF and plain text
SupportedTypes == { <<"application", "pdf">>, <<"text", "plain">> }

\* C10: a document whose declared type is neither PDF nor plain text leaves
\* no registry row, no stored file and no vector store directory.
UnsupportedTypeLeavesNothing ==
    \A d \in DOMAIN documents :
        documents[d].document_type \notin SupportedTypes =>
            /\ FALSE
            /\ documents[d].file_path \notin files
            /\ vector_store_dir(documents[d].user_id, d) \notin dirs

\* C11: whatever the interleaving of the writers, get_conversation_messages
\* returns exactly the messages of the conversation, in ascending timestamp
\* order, and no stored message is ever changed or removed.
HistoryInTimestampOrder ==
    /\ []((result.op = "get_conversation_messages" /\ result.conversation_id # 0) =>
            LET mine == { m \in 1..result.n :
                            messages[m].conversation_id = result.conversation_id }
            IN /\ Range(result.ids) = mine
               /\ Len(result.ids) = Cardinality(mine)
               /\ Len(result.ret) = Len(result.ids)
               /\ \A i, j \in DOMAIN result.ids :
                     i < j => messages[result.ids[i]].timestamp
                                 <= messages[result.ids[j]].timestamp)
    /\ [][\A m \in DOMAIN messages :
             m \in DOMAIN messages' /\ messages'[m] = messages[m]]_vars

ThreeMessagesInsertedOutOfOrder ==
    /\ result.op = "get_conversation_messages"
    /\ Len(result.ids) = 3
    /\ result.ids # <<1, 2, 3>>
    /\ \A i, j \in DOMAIN result.ids :
          i < j => messages[result.ids[i]].timestamp < messages[result.ids[j]].timestamp

\* C12: the splitter takes the first boundary, in the order paragraph break,
\* line break, sentence terminator, whitespace, that occurs in the text, and
\* the hard character cut (the empty separator) only when none occurs.
SeparatorByPriority ==
    result.op = "split_text" =>
        LET has(sep) == \E i \in 1..(Len(result.text) - Len(sep) + 1) :
                           \A k \in 1..Len(sep) : result.text[i + k - 1] = sep[k]
        IN result.separator =
              IF has(<<"\n", "\n">>) THEN <<"\n", "\n">>
              ELSE IF has(<<"\n">>) THEN <<"\n">>
              ELSE IF has(<<".">>) THEN <<".">>
              ELSE IF has(<<" ">>) THEN <<" ">>
              ELSE <<>>

====
